---- MODULE Spec2Model ----
(***************************************************************************)
(* Model of yupsh/capture: the pipeline sink built by Capture(stdout,      *)
(* stderr) and run by command.Executor (src/command.go).                   *)
(*                                                                         *)
(* The executor copies stdin to c.stdout with io.Copy, and on a copy error *)
(* writes "capture: " + err.Error() + "\n" to c.stderr (when non-nil) and  *)
(* returns the error.  io.Copy is modelled by its three paths, in the      *)
(* order it tries them: a source with a WriteTo method (strings.Reader,    *)
(* bytes.Reader, bytes.Buffer) hands all of its remaining bytes to one     *)
(* Write of the destination; otherwise a destination with a ReadFrom       *)
(* method (bytes.Buffer) has the source Read straight into its own free    *)
(* space; otherwise the generic loop reads a chunk into the copy buffer    *)
(* and writes it, stopping at the first write error, short write or read   *)
(* error.  Readers and writers are the environment: a plain reader yields  *)
(* `input` in chunks of its choosing and then its terminal error; a writer *)
(* accepts all bytes, or (when faulty) a part of them with or without an   *)
(* error.  The normal destination is taken to be non-nil (a nil one makes  *)
(* the first write panic inside io.Copy, which no statement here is        *)
(* about); the error destination may be nil, as the code tests for it.     *)
(***************************************************************************)
EXTENDS Integers, Sequences, FiniteSets, TLC

\* ---------------------------------------------------------------- bounds
MaxLen == 3
ChunkSize == 2

\* ----------------------------------------------------------- environment
Byte == {"c", "\n"}
Writers == {"w1", "w2", "w3", "w4"}
Nil == "nil"
\* a writer's kind: one that accepts every write, one that may return an
\* error, one that may accept fewer bytes without an error, and a
\* bytes.Buffer, which accepts every write and has a ReadFrom method
Modes == {"ok", "err", "short", "buffer"}

\* stdin's kind: a plain io.Reader, or an in-memory reader with a WriteTo
\* method, which holds its bytes and never fails
SrcKinds == {"reader", "writerTo"}

NoErr == "no error"
EOF == "EOF"
ErrRead == "read failed"
ErrCanceled == "context canceled"
ErrShortWrite == "short write"
WErr(h) ==
    IF h = "w1" THEN "write failed 1"
    ELSE IF h = "w2" THEN "write failed 2"
    ELSE "write failed"

\* the writers the framework may pass as its own stdout and stderr: two other
\* writers, one other writer twice, or the sink's own
HostPairs == {<<"w3", "w4">>, <<"w3", "w3">>, <<"w1", "w2">>}

Inputs == UNION {[1..n -> Byte] : n \in 0..MaxLen}

Min(a, b) == IF a < b THEN a ELSE b

VARIABLES
    input,      \* the bytes stdin yields before its terminal error
    term,       \* stdin's terminal error: EOF or a read error
    ctxAware,   \* whether stdin's Read fails once the context is done
    srcKind,    \* whether stdin has a WriteTo method
    wmode,      \* each writer's behaviour
    argOut,     \* the writers handed to Capture
    argErr,
    c_stdout,   \* command.stdout
    c_stderr,   \* command.stderr
    hostOut,    \* the two writers the framework passes, bound to _ and _
    hostErr,
    ctxDone,    \* ctx has been cancelled
    cancelAt,   \* where the executor was when ctx was cancelled
    cancelRpos, \* how much of the input had been read by then
    pc,         \* position of the executor
    rpos,       \* bytes read from stdin so far
    buf,        \* the bytes taken from stdin and not yet written
    er,         \* the error of the last Read
    written,    \* io.Copy's count of bytes written
    err,        \* io.Copy's error
    ret,        \* the executor's return value
    diagErr,    \* the (discarded) error of c.stderr.Write
    diagCalls,  \* number of c.stderr.Write calls made
    dest        \* what each writer has received

vars == <<input, term, ctxAware, srcKind, wmode, argOut, argErr, c_stdout, c_stderr,
          hostOut, hostErr, ctxDone, cancelAt, cancelRpos, pc, rpos, buf, er,
          written, err, ret, diagErr, diagCalls, dest>>

envVars == <<input, term, ctxAware, srcKind, wmode, argOut, argErr>>
cmdVars == <<c_stdout, c_stderr>>
ctxVars == <<ctxDone, cancelAt, cancelRpos>>

Terminal == {"Done", "Failed", "Panicked"}

\* ------------------------------------------------------------- conversions
Prefix == <<"c", "a", "p", "t", "u", "r", "e", ":", " ">>

\* err.Error()
ErrMsg(e) ==
    IF e = ErrShortWrite
        THEN <<"s", "h", "o", "r", "t", " ", "w", "r", "i", "t", "e">>
    ELSE IF e = ErrCanceled
        THEN <<"c", "o", "n", "t", "e", "x", "t", " ",
               "c", "a", "n", "c", "e", "l", "e", "d">>
    ELSE IF e = ErrRead
        THEN <<"r", "e", "a", "d", " ", "f", "a", "i", "l", "e", "d">>
    ELSE IF e = EOF
        THEN <<"E", "O", "F">>
    ELSE <<"w", "r", "i", "t", "e", " ", "f", "a", "i", "l", "e", "d">>
             \o (IF e = WErr("w1") THEN <<" ", "1">>
                 ELSE IF e = WErr("w2") THEN <<" ", "2">>
                 ELSE <<>>)

DiagLineNoNewline(e) == Prefix \o ErrMsg(e)

\* []byte("capture: " + err.Error() + "\n")
DiagLine(e) == Prefix \o ErrMsg(e) \o <<"\n">>

\* ------------------------------------------------------ readers and writers
MaxReadAll(rem) == rem

\* the most one Read into the copy buffer returns: the buffer's size, or
\* what is left
MaxRead(rem) == Min(ChunkSize, rem)

\* the most one Read into a bytes.Buffer's free space returns: the space is
\* grown to at least 512 bytes before each Read, more than any input here
MaxReadFrom(rem) == rem

\* the outcomes <<n, error>> of stdin.Read into room for `room` bytes
ReadInto(room) ==
    IF ctxAware /\ ctxDone
        THEN {<<0, ErrCanceled>>}
        ELSE LET rem == Len(input) - rpos IN
             {<<n, NoErr>> : n \in 1..room}
                 \cup (IF rem <= room THEN {<<rem, term>>} ELSE {})

\* the outcomes of stdin.Read in the generic loop
ReadOutcomes == ReadInto(MaxRead(Len(input) - rpos))

\* the outcomes of stdin.Read in bytes.Buffer.ReadFrom
ReadFromOutcomes == ReadInto(MaxReadFrom(Len(input) - rpos))

\* the bytes a Read of n bytes at offset pos puts in the buffer
Chunk(pos, n) == SubSeq(input, pos + 1, pos + n)

\* the outcomes <<n, error>> of h.Write(p)
WriteOutcomes(h, p) ==
    {<<Len(p), NoErr>>}
        \cup (IF wmode[h] = "err"
                 THEN {<<n, WErr(h)>> : n \in 0..Len(p)} ELSE {})
        \cup (IF wmode[h] = "short"
                 THEN {<<n, NoErr>> : n \in 0..(Len(p) - 1)} ELSE {})

\* src.(io.WriterTo)
IsWriterTo == srcKind = "writerTo"

\* dst.(io.ReaderFrom)
IsReaderFrom(h) == wmode[h] = "buffer"

\* a writer's content after it accepted the first n bytes of p
Deliver(old, p, n) == old \o SubSeq(p, 1, n)

\* ----------------------------------------------------------------- io.Copy
\* if nr > 0: the bytes of a Read are written before its error is looked at
HasData(n, e) == n > 0

\* if er != EOF { err = er }
CopyErrOnRead(e) == IF e = EOF THEN NoErr ELSE e

WriteStepErrIgnoreShort(nr, nw, ew) == ew

\* the error of one write step: ew, else ErrShortWrite when nr != nw
WriteStepErr(nr, nw, ew) ==
    IF ew # NoErr THEN ew
    ELSE IF nr # nw THEN ErrShortWrite
    ELSE NoErr

LoopContinuesRetry(stepErr, readErr) == readErr = NoErr

\* the loop goes on to the next Read
LoopContinues(stepErr, readErr) == stepErr = NoErr /\ readErr = NoErr

CopyDstHost == hostOut

CopyDstStderr == IF c_stderr = Nil THEN c_stdout ELSE c_stderr

\* the dst of io.Copy(c.stdout, stdin)
CopyDst == c_stdout

\* ---------------------------------------------------------------- Executor
ShouldReportAlways == TRUE

\* if c.stderr != nil
ShouldReport == c_stderr # Nil

DiagDstStdout == c_stdout

\* the writer of c.stderr.Write(...)
DiagDst == c_stderr

ExecResultLast(e, de) == IF de # NoErr THEN de ELSE e

\* return err
ExecResult(e, de) == e

\* ------------------------------------------------------------------- Init
Init ==
    /\ input \in Inputs
    /\ term \in {EOF, ErrRead}
    /\ ctxAware \in BOOLEAN
    /\ srcKind \in SrcKinds
    /\ (srcKind = "writerTo" => (term = EOF /\ ~ctxAware))
    /\ argOut = "w1"
    /\ argErr \in {"w1", "w2", Nil}
    /\ wmode \in [Writers -> Modes]
    /\ \A h \in Writers \ {argOut, argErr} : wmode[h] = "ok"
    /\ c_stdout = Nil
    /\ c_stderr = Nil
    /\ hostOut = Nil
    /\ hostErr = Nil
    /\ ctxDone = FALSE
    /\ cancelAt = "never"
    /\ cancelRpos = 0
    /\ pc = "init"
    /\ rpos = 0
    /\ buf = <<>>
    /\ er = NoErr
    /\ written = 0
    /\ err = NoErr
    /\ ret = NoErr
    /\ diagErr = NoErr
    /\ diagCalls = 0
    /\ dest = [h \in Writers |-> <<>>]

\* ---------------------------------------------------------------- actions
\* Capture(stdout, stderr): both arguments are stored as they are
Capture ==
    /\ pc = "init"
    /\ c_stdout' = argOut
    /\ c_stderr' = argErr
    /\ pc' = "ready"
    /\ UNCHANGED <<envVars, ctxVars, hostOut, hostErr, rpos, buf, er, written,
                   err, ret, diagErr, diagCalls, dest>>

\* the framework calls the executor: func(ctx, stdin, _, _)
Execute ==
    /\ pc = "ready"
    /\ \E hp \in HostPairs :
           /\ hostOut' = hp[1]
           /\ hostErr' = hp[2]
    /\ pc' = "read"
    /\ UNCHANGED <<envVars, cmdVars, ctxVars, rpos, buf, er, written, err,
                   ret, diagErr, diagCalls, dest>>

\* the context is cancelled, before the copy or during it (nothing looks at
\* the context once io.Copy has returned)
Cancel ==
    /\ ~ctxDone
    /\ pc \in {"ready", "read", "write", "writeto"}
    /\ ctxDone' = TRUE
    /\ cancelAt' = pc
    /\ cancelRpos' = rpos
    /\ UNCHANGED <<envVars, cmdVars, hostOut, hostErr, pc, rpos, buf, er,
                   written, err, ret, diagErr, diagCalls, dest>>

\* io.Copy: if wt, ok := src.(WriterTo); ok { return wt.WriteTo(dst) }
\* WriteTo of an in-memory reader: nothing left returns 0, nil; otherwise all
\* the remaining bytes go to one Write
WriteToTake ==
    /\ pc = "read"
    /\ IsWriterTo
    /\ IF rpos >= Len(input)
           THEN /\ pc' = "copied"
                /\ buf' = buf
           ELSE /\ pc' = "writeto"
                /\ buf' = Chunk(rpos, Len(input) - rpos)
    /\ UNCHANGED <<envVars, cmdVars, ctxVars, hostOut, hostErr, rpos, er,
                   written, err, ret, diagErr, diagCalls, dest>>

\* WriteTo: m, err := w.Write(rest); the reader advances by m; a short count
\* without an error is io.ErrShortWrite
WriteToWrite ==
    /\ pc = "writeto"
    /\ \E o \in WriteOutcomes(CopyDst, buf) :
           /\ dest' = [dest EXCEPT ![CopyDst] = Deliver(@, buf, o[1])]
           /\ written' = written + o[1]
           /\ rpos' = rpos + o[1]
           /\ err' = WriteStepErr(Len(buf), o[1], o[2])
    /\ pc' = "copied"
    /\ buf' = <<>>
    /\ UNCHANGED <<envVars, cmdVars, ctxVars, hostOut, hostErr, er, ret,
                   diagErr, diagCalls>>

\* io.Copy: if rf, ok := dst.(ReaderFrom); ok { return rf.ReadFrom(src) }
\* one round of bytes.Buffer.ReadFrom: the bytes of a Read land in the buffer;
\* io.EOF ends it with nil, any other error with that error
CopyReadFrom ==
    /\ pc = "read"
    /\ ~IsWriterTo
    /\ IsReaderFrom(CopyDst)
    /\ \E o \in ReadFromOutcomes :
           /\ dest' = [dest EXCEPT
                          ![CopyDst] = Deliver(@, Chunk(rpos, o[1]), o[1])]
           /\ rpos' = rpos + o[1]
           /\ written' = written + o[1]
           /\ er' = o[2]
           /\ err' = CopyErrOnRead(o[2])
           /\ pc' = IF o[2] = NoErr THEN "read" ELSE "copied"
    /\ UNCHANGED <<envVars, cmdVars, ctxVars, hostOut, hostErr, buf, ret,
                   diagErr, diagCalls>>

\* io.Copy's loop: nr, er := src.Read(buf)
CopyRead ==
    /\ pc = "read"
    /\ ~IsWriterTo
    /\ ~IsReaderFrom(CopyDst)
    /\ \E o \in ReadOutcomes :
           /\ buf' = Chunk(rpos, o[1])
           /\ rpos' = rpos + o[1]
           /\ er' = o[2]
           /\ IF HasData(o[1], o[2])
                  THEN /\ pc' = "write"
                       /\ err' = err
                  ELSE /\ pc' = "copied"
                       /\ err' = CopyErrOnRead(o[2])
    /\ UNCHANGED <<envVars, cmdVars, ctxVars, hostOut, hostErr, written, ret,
                   diagErr, diagCalls, dest>>

\* io.Copy: nw, ew := dst.Write(buf[0:nr]), then the checks that end the loop
CopyWrite ==
    /\ pc = "write"
    /\ \E o \in WriteOutcomes(CopyDst, buf) :
           LET stepErr == WriteStepErr(Len(buf), o[1], o[2]) IN
           /\ dest' = [dest EXCEPT ![CopyDst] = Deliver(@, buf, o[1])]
           /\ written' = written + o[1]
           /\ err' = IF stepErr # NoErr THEN stepErr ELSE CopyErrOnRead(er)
           /\ pc' = IF LoopContinues(stepErr, er) THEN "read" ELSE "copied"
    /\ buf' = <<>>
    /\ UNCHANGED <<envVars, cmdVars, ctxVars, hostOut, hostErr, rpos, er, ret,
                   diagErr, diagCalls>>

\* err == nil: return nil
ReturnNil ==
    /\ pc = "copied"
    /\ err = NoErr
    /\ ret' = NoErr
    /\ pc' = "Done"
    /\ UNCHANGED <<envVars, cmdVars, ctxVars, hostOut, hostErr, rpos, buf, er,
                   written, err, diagErr, diagCalls, dest>>

\* err != nil, c.stderr != nil: write the diagnostic line, return err
ReportAndReturn ==
    /\ pc = "copied"
    /\ err # NoErr
    /\ ShouldReport
    /\ IF DiagDst = Nil
           THEN /\ pc' = "Panicked"
                /\ UNCHANGED <<ret, diagErr, diagCalls, dest>>
           ELSE \E o \in WriteOutcomes(DiagDst, DiagLine(err)) :
                    /\ dest' = [dest EXCEPT
                                   ![DiagDst] = Deliver(@, DiagLine(err), o[1])]
                    /\ diagErr' = o[2]
                    /\ diagCalls' = diagCalls + 1
                    /\ ret' = ExecResult(err, o[2])
                    /\ pc' = "Failed"
    /\ UNCHANGED <<envVars, cmdVars, ctxVars, hostOut, hostErr, rpos, buf, er,
                   written, err>>

\* err != nil, c.stderr == nil: return err
ReturnSilently ==
    /\ pc = "copied"
    /\ err # NoErr
    /\ ~ShouldReport
    /\ ret' = ExecResult(err, NoErr)
    /\ pc' = "Failed"
    /\ UNCHANGED <<envVars, cmdVars, ctxVars, hostOut, hostErr, rpos, buf, er,
                   written, err, diagErr, diagCalls, dest>>

Next ==
    \/ Capture
    \/ Execute
    \/ Cancel
    \/ WriteToTake
    \/ WriteToWrite
    \/ CopyReadFrom
    \/ CopyRead
    \/ CopyWrite
    \/ ReturnNil
    \/ ReportAndReturn
    \/ ReturnSilently

Spec == Init /\ [][Next]_vars

TypeOK ==
    /\ input \in Inputs
    /\ pc \in {"init", "ready", "read", "write", "writeto", "copied"}
             \cup Terminal
    /\ rpos \in 0..Len(input)
    /\ written \in 0..rpos
    /\ diagCalls \in 0..1

\* ------------------------------------------------------------ vocabulary
Finished == pc \in {"Done", "Failed"}

\* the writer behind a configured destination accepts every write
Accepts(h) == h # Nil /\ wmode[h] \in {"ok", "buffer"}

\* the bytes stdin has emitted so far
Emitted == SubSeq(input, 1, rpos)

\* the diagnostic line the documentation describes for failure e: the tag
\* "capture: ", the failure's description, a line terminator
ExpectedLine(e) ==
    <<"c", "a", "p", "t", "u", "r", "e", ":", " ">> \o ErrMsg(e) \o <<"\n">>

WriteFailures == {WErr(h) : h \in Writers} \cup {ErrShortWrite}
ReadFailures == {ErrRead, ErrCanceled}

\* ------------------------------------------------------------------ claims
\* C1: when stdin reads to end-of-stream without error and both destinations
\* accept every write, the executor returns nil, the normal destination holds
\* exactly the input bytes and the error destination has received nothing.
C1_ExactCopy ==
    (/\ Finished
     /\ er \notin ReadFailures
     /\ Accepts(c_stdout)
     /\ Accepts(c_stderr))
    => (/\ pc = "Done"
        /\ ret = NoErr
        /\ rpos = Len(input)
        /\ dest[c_stdout] = input
        /\ diagCalls = 0
        /\ (c_stderr # c_stdout => dest[c_stderr] = <<>>))

C1_Witness ==
    /\ pc = "Done"
    /\ er = EOF
    /\ Accepts(c_stdout)
    /\ Accepts(c_stderr)
    /\ c_stderr # c_stdout
    /\ Len(input) > ChunkSize
    /\ dest[c_stdout] = input
    /\ input[1] # input[2]

\* C2: when a write to the normal destination fails (an error or a short
\* write) and the error destination is a distinct writer that accepts every
\* write, the executor returns that failure and the error destination holds
\* exactly the one line "capture: " + description + "\n", from one write.
C2_WriteFailureReported ==
    (/\ Finished
     /\ err \in WriteFailures
     /\ c_stderr # c_stdout
     /\ Accepts(c_stderr))
    => (/\ pc = "Failed"
        /\ ret = err
        /\ diagCalls = 1
        /\ dest[c_stderr] = ExpectedLine(err))

C2_Witness ==
    /\ pc = "Failed"
    /\ err = WErr(c_stdout)
    /\ c_stderr # c_stdout
    /\ Accepts(c_stderr)
    /\ written > 0
    /\ written < Len(input)
    /\ dest[c_stderr] = ExpectedLine(err)

\* C4: when stdin yields some bytes and then a read error, and the
\* destinations are distinct and accept every write, the executor returns the
\* read error, the normal destination holds exactly the bytes emitted before
\* the error, and the error destination holds exactly
\* "capture: " + message + "\n".
C4_ReadFailureReported ==
    (/\ Finished
     /\ er \in ReadFailures
     /\ Accepts(c_stdout)
     /\ c_stderr # c_stdout
     /\ Accepts(c_stderr))
    => (/\ pc = "Failed"
        /\ ret = er
        /\ dest[c_stdout] = Emitted
        /\ dest[c_stderr] = ExpectedLine(er))

C4_Witness ==
    /\ pc = "Failed"
    /\ er = ErrRead
    /\ Accepts(c_stdout)
    /\ c_stderr # c_stdout
    /\ Accepts(c_stderr)
    /\ Len(input) > ChunkSize
    /\ dest[c_stdout] = input
    /\ dest[c_stderr] = ExpectedLine(ErrRead)

\* C5: when the transfer fails and the write of the diagnostic line fails
\* too, the executor returns the transfer's failure: not the secondary one,
\* and not success.
C5_OriginalFailureReturned ==
    (/\ Finished
     /\ diagErr # NoErr)
    => (/\ pc = "Failed"
        /\ err # NoErr
        /\ ret = err
        /\ (diagErr # err => ret # diagErr))

C5_Witness ==
    /\ pc = "Failed"
    /\ diagErr # NoErr
    /\ diagErr # err
    /\ err = WErr(c_stdout)
    /\ ret = err
\* C3: cancelling the context while the executor is copying, with input still
\* unread, a reader that would otherwise reach end-of-stream and writers
\* that accept every write, makes the executor fail with the cancellation
\* and report it.
C3_CancelAborts ==
    (/\ Finished
     /\ cancelAt \in {"read", "write", "writeto"}
     /\ cancelRpos < Len(input)
     /\ term = EOF
     /\ Accepts(c_stdout)
     /\ c_stderr # c_stdout
     /\ Accepts(c_stderr))
    => (/\ pc = "Failed"
        /\ ret = ErrCanceled
        /\ dest[c_stderr] = ExpectedLine(ErrCanceled))

\* C6: when both destinations are the same writer, it holds the content
\* bytes written so far, in input order, followed (only once the executor
\* has failed) by the diagnostic line or the part of it the writer accepted;
\* the whole line when the writer accepts every write.
C6_AliasedOrder ==
    (pc # "init" /\ c_stderr = c_stdout)
    => LET content == SubSeq(input, 1, written) IN
       IF pc = "Failed"
           THEN /\ \E k \in 0..Len(ExpectedLine(err)) :
                       dest[c_stdout] = content \o SubSeq(ExpectedLine(err), 1, k)
                /\ (Accepts(c_stdout)
                       => dest[c_stdout] = content \o ExpectedLine(err))
           ELSE dest[c_stdout] = content

C6_Witness ==
    /\ pc = "Failed"
    /\ c_stderr = c_stdout
    /\ er = ErrRead
    /\ written > ChunkSize
    /\ dest[c_stdout] = input \o ExpectedLine(ErrRead)

\* C7: on every path the writers the framework passed to the executor, when
\* they are not the sink's own destinations, have received nothing; only the
\* configured destinations are ever written to.
C7_HostStreamsUntouched ==
    \A h \in Writers : h \notin {c_stdout, c_stderr} => dest[h] = <<>>

C7_Witness ==
    /\ pc = "Failed"
    /\ {hostOut, hostErr} \cap {c_stdout, c_stderr} = {}
    /\ hostOut # hostErr
    /\ c_stderr \notin {Nil, c_stdout}
    /\ dest[c_stdout] # <<>>
    /\ dest[c_stderr] # <<>>
    /\ dest[hostOut] = <<>>
    /\ dest[hostErr] = <<>>

\* C8: the copy is a single pass with one attempt: once io.Copy has a
\* failure nothing more is read from stdin or written as content, the read
\* and write positions only move forward with the written one never ahead of
\* the read one, the executor ends only from the end of the copy, in Done
\* when there was no failure and Failed otherwise, and then stays there.
C8_Step ==
    /\ (err # NoErr => (rpos' = rpos /\ written' = written))
    /\ rpos' >= rpos
    /\ written' >= written
    /\ written' <= rpos'
    /\ (pc \in Terminal => pc' = pc)
    /\ (pc \notin Terminal /\ pc' \in Terminal
           => /\ pc = "copied"
              /\ pc' = (IF err = NoErr THEN "Done" ELSE "Failed"))

C8_SinglePass == [][C8_Step]_vars

C8_Witness ==
    /\ pc = "Failed"
    /\ err = WErr(c_stdout)
    /\ written > 0
    /\ written < rpos
    /\ rpos < Len(input)

\* C9 as stated: with distinct destinations, in every state the normal
\* destination holds a prefix of the input (the first `written` bytes,
\* unmodified), and the bytes taken from the input and not yet written are at
\* most one chunk.
C9_ChunkBoundOnEveryPath ==
    (pc # "init" /\ c_stderr # c_stdout)
    => (/\ dest[c_stdout] = SubSeq(input, 1, written)
        /\ written <= rpos
        /\ rpos - written <= ChunkSize
        /\ Len(buf) <= ChunkSize)

\* C9 amended: with distinct destinations, in every state the normal
\* destination holds a prefix of the input (the first `written` bytes,
\* unmodified); the bytes taken from the input and not yet written are at
\* most one chunk when io.Copy reads the input itself, and when the input
\* has a WriteTo method they are all of its remaining bytes, handed to one
\* write.
C9_PrefixAndBufferBound ==
    (pc # "init" /\ c_stderr # c_stdout)
    => (/\ dest[c_stdout] = SubSeq(input, 1, written)
        /\ written <= rpos
        /\ rpos - written <= ChunkSize
        /\ (~IsWriterTo => Len(buf) <= ChunkSize)
        /\ (~IsWriterTo /\ IsReaderFrom(c_stdout)
               => (buf = <<>> /\ rpos = written))
        /\ (IsWriterTo
               => /\ rpos = written
                  /\ buf = (IF pc = "writeto"
                                THEN SubSeq(input, written + 1, Len(input))
                                ELSE <<>>)))

C9_Witness ==
    /\ pc = "write"
    /\ c_stderr # c_stdout
    /\ written > 0
    /\ Len(buf) = ChunkSize
    /\ rpos = Len(input)
    /\ dest[c_stdout] = SubSeq(input, 1, written)

\* C10: Capture stores both arguments as they are, a nil error destination
\* included; with a nil error destination a failed transfer makes no
\* diagnostic write at all and the executor still returns the transfer's
\* failure.
C10_NilErrorDestination ==
    /\ (pc # "init" => (c_stdout = argOut /\ c_stderr = argErr))
    /\ (pc # "init" /\ c_stderr = Nil
           => /\ diagCalls = 0
              /\ pc # "Panicked"
              /\ \A h \in Writers \ {c_stdout} : dest[h] = <<>>
              /\ (pc \in Terminal /\ err # NoErr
                     => (pc = "Failed" /\ ret = err)))

C10_Witness ==
    /\ pc = "Failed"
    /\ argErr = Nil
    /\ c_stderr = Nil
    /\ err = ErrRead
    /\ ret = ErrRead
    /\ written > 0
====
